---- MODULE Spec2Model ----
(***************************************************************************)
(* A model of the two-tier connection pool (package pool) and of the       *)
(* cluster coordinator's command retry loop (package cluster).             *)
(*                                                                         *)
(* Spec         the Pool: NewCustom, Get, Put, Cmd, Empty, the background  *)
(*              fill and the probe goroutine, interleaved at the           *)
(*              granularity of the channel and atomic operations.          *)
(* SpecSerial   the Pool with calls that do not interleave.                *)
(* SpecCluster  Cluster.Cmd / clientCmd / getConn / Reset against an       *)
(*              arbitrary server.                                          *)
(* SpecClose    Cluster.Cmd and Cluster.Close.                             *)
(* SpecRefresh  Cluster.Reset and its throttle, with the time measured.    *)
(* SpecKey      the lookup of a key: addrForKeyInner.                      *)
(* SpecBorrow   Cluster.GetForKey and Cluster.Put on the pool of one node. *)
(* SpecDrain    Cluster.Reset on the pool of one node.                     *)
(* SpecEvery    Cluster.GetEvery.                                          *)
(***************************************************************************)
EXTENDS Integers, Sequences, FiniteSets, TLC

VARIABLES
    \* ---- package pool ----
    args,       \* the (size, maxActive) NewCustom was called with
    newErr,     \* the error NewCustom returned ("nil" when none)
    p,          \* the Pool struct
    now,        \* time.Now(), in minutes
    closed,     \* the clients that are closed or discarded
    dialed,     \* number of clients the DialFunc has produced
    pc,         \* position of each goroutine
    held,       \* clients each goroutine has checked out
    loc,        \* locals of the running call: conn, active
    fillI,      \* loop counter of the background fill
    crashed,    \* a goroutine panicked: the program is gone
    solo,       \* history: the call running without interleaving, if any
    \* ---- package cluster ----
    pools,      \* Cluster.pools: the addresses that have a pool
    mapping,    \* Cluster.mapping: slot -> address
    throttled,  \* Cluster.resetThrottle is set
    cur,        \* arguments of the running clientCmd activation
    deferred,   \* clients of the suspended activations (defer c.Put)
    cpc,        \* position of the Cluster.Cmd call
    result,     \* what Cluster.Cmd returned
    trips,      \* command round-trips issued by the call
    tick,       \* a tick is waiting in resetThrottle.C
    clock,      \* the time since NewWithOpts, in units of ResetThrottle / 2
    actor,      \* the goroutine of spin: "spin", "closing", "returned"
    key,        \* the key of a lookup
    lookup,     \* what addrForKeyInner did with it
    borrow,     \* history: the last GetForKey and the Put that followed it,
                \* or the last GetEvery and the clients it gave
    last,       \* history: the reply the last activation of clientCmd got
    rst,        \* history: the observed Reset, or the Close, that has just returned
    sinceSlots  \* history: time since the last CLUSTER SLOTS, capped

pvars == <<args, newErr, p, now, closed, dialed, pc, held, loc, fillI, crashed,
           solo>>
cvars == <<pools, mapping, throttled, cur, deferred, cpc, result, trips, tick,
           clock, actor, key, lookup, borrow, last, rst, sinceSlots>>
vars == <<pvars, cvars>>

(***************************************************************************)
(* Bounds of the model and constants of the program                        *)
(***************************************************************************)
MaxConns == 4
MaxTime == 2
waitForReuse == 1
defaultMaxActive == 100

Callers == {"c1"}
Procs == Callers \cup {"probe"}
\* the (size, maxActive) pairs NewCustom is called with
Configs == {<<-1, 0>>, <<0, -1>>, <<0, 0>>, <<1, 0>>, <<3, 2>>, <<0, 5>>, <<1, 1>>, <<2, 3>>}
\* and those of the specification in which calls do not interleave
ConfigsSerial == {<<1, 1>>, <<2, 2>>, <<2, 4>>}

NoConn == 0
NoLoc == [conn |-> NoConn, active |-> 0]
NoRet == [err |-> "none", conn |-> NoConn]
NoSolo == [who |-> "none"]
NoFrame == [client |-> "", ask |-> FALSE, tried |-> {}, haveReset |-> FALSE]
NoReply == [kind |-> "none", slot |-> 0, addr |-> ""]
NoRst == [issued |-> FALSE, err |-> "none", via |-> "", explicit |-> {},
          self |-> FALSE, emptied |-> {}, since |-> 0]
NoLookup == [err |-> "none", hashed |-> <<>>]
NoBorrow == [stage |-> "none"]

RECURSIVE Count(_, _)
Count(s, x) == IF s = <<>> THEN 0
               ELSE (IF Head(s) = x THEN 1 ELSE 0) + Count(Tail(s), x)

(***************************************************************************)
(* package pool: construction                                              *)
(***************************************************************************)
AllProcs == Procs \cup {"fill"}

NilPool == [pool |-> <<>>, secondaryPool |-> <<>>, secondaryActive |-> 0,
            active |-> 0, maxActive |-> 0, size |-> 0, secCap |-> 0,
            stopOnce |-> "new", stopCh |-> "open"]

\* return nil, ErrIllegalArgument
Rejected == [err |-> "ErrIllegalArgument", p |-> NilPool, dialed |-> 0,
             probe |-> "done", fill |-> "done", crashed |-> FALSE]

\* NewCustom after its checks of the arguments, up to its return, for the
\* result of the first dial.  size and secCap are the capacities of the two
\* channels: make(chan, n) panics for n < 0.  The probe goroutine is started
\* before the first dial; the fill goroutine after it succeeded.
Build(size, maxActive, dialOK) ==
    LET np == [NilPool EXCEPT !.maxActive = maxActive, !.size = size,
                              !.secCap = maxActive - size]
    IN  IF size < 0 \/ maxActive - size < 0
        THEN [err |-> "panic", p |-> NilPool, dialed |-> 0,
              probe |-> "done", fill |-> "done", crashed |-> TRUE]
        ELSE IF size < 1
        THEN [err |-> "nil", p |-> np, dialed |-> 0,
              probe |-> "start", fill |-> "done", crashed |-> FALSE]
        ELSE IF ~dialOK
        THEN [err |-> "dialErr", p |-> np, dialed |-> 0,
              probe |-> "start", fill |-> "done", crashed |-> FALSE]
        ELSE [err |-> "nil",
              p |-> [np EXCEPT !.pool = <<1>>, !.active = 1],
              dialed |-> 1, probe |-> "start",
              fill |-> IF 0 < size - 1 THEN "dial" ELSE "done",
              crashed |-> FALSE]

\* mutant: the default is applied before the arguments are compared
NewCustomDefaultFirst(size, maxActive, dialOK) ==
    LET ma == IF maxActive <= 0 THEN defaultMaxActive ELSE maxActive
    IN  IF ma < size THEN Rejected ELSE Build(size, ma, dialOK)

\* if maxActive < size { return nil, ErrIllegalArgument }
\* if maxActive <= 0 { maxActive = defaultMaxActive }
NewCustom(size, maxActive, dialOK) ==
    IF maxActive < size
    THEN Rejected
    ELSE Build(size, IF maxActive <= 0 THEN defaultMaxActive ELSE maxActive, dialOK)

PoolInit(configs) ==
    \E cfg \in configs, dialOK \in BOOLEAN :
        LET r == NewCustom(cfg[1], cfg[2], dialOK) IN
        /\ args = [size |-> cfg[1], maxActive |-> cfg[2]]
        /\ newErr = r.err
        /\ p = r.p
        /\ dialed = r.dialed
        /\ crashed = r.crashed
        /\ pc = [q \in AllProcs |->
                    IF q = "probe" THEN r.probe
                    ELSE IF q = "fill" THEN r.fill
                    ELSE IF r.err \in {"nil", "dialErr"} THEN "idle" ELSE "done"]
        /\ now = 0
        /\ closed = {}
        /\ held = [q \in Procs |-> {}]
        /\ loc = [q \in AllProcs |-> NoLoc]
        /\ fillI = 0
        /\ solo = NoSolo

(***************************************************************************)
(* history: the call that has run without a step of anyone else (or of the *)
(* clock) since it began, with the pool as it was when it began, the       *)
(* client it was given and the result it returned                          *)
(***************************************************************************)
Snapshot(q, op, c, crit) ==
    [who |-> q, op |-> op, conn |-> c, critical |-> crit, pre |-> p,
     closed |-> closed, dialed |-> dialed, at |-> now, ret |-> NoRet]
Kept(q) == IF solo.who = q THEN solo ELSE NoSolo

(***************************************************************************)
(* Pool.Get                                                                *)
(***************************************************************************)
\* return conn, err.  Inside Pool.Cmd (the probe) a client goes on to the
\* command and the deferred Put.
GetReturn(q, err, c, s0) ==
    /\ held' = IF err = "nil" THEN [held EXCEPT ![q] = @ \cup {c}] ELSE held
    /\ pc' = [pc EXCEPT ![q] = IF q = "probe" /\ err = "nil" THEN "cmdPut" ELSE "idle"]
    /\ loc' = [loc EXCEPT ![q] = NoLoc]
    /\ solo' = IF s0.who = q THEN [s0 EXCEPT !.ret = [err |-> err, conn |-> c]] ELSE s0

\* mutant: the client is read but left in the channel
GetPrimaryPeek(q, s0) ==
    IF p.pool # <<>>
    THEN /\ UNCHANGED p
         /\ GetReturn(q, "nil", Head(p.pool), s0)
    ELSE /\ pc' = [pc EXCEPT ![q] = "getSecondary"]
         /\ solo' = s0
         /\ UNCHANGED <<p, held, loc>>

\* select { case conn := <-p.pool: return conn, nil / default: ... }
GetPrimary(q, s0) ==
    IF p.pool # <<>>
    THEN /\ p' = [p EXCEPT !.pool = Tail(@)]
         /\ GetReturn(q, "nil", Head(p.pool), s0)
    ELSE /\ pc' = [pc EXCEPT ![q] = "getSecondary"]
         /\ solo' = s0
         /\ UNCHANGED <<p, held, loc>>

Get(q) ==
    /\ ~crashed /\ q \in Callers /\ pc[q] = "idle"
    /\ GetPrimary(q, Snapshot(q, "Get", NoConn, FALSE))
    /\ UNCHANGED <<args, newErr, now, closed, dialed, fillI, crashed, cvars>>

\* select { case conn := <-p.secondaryPool: ... / default: ... }
GetSecondary(q) ==
    /\ ~crashed /\ pc[q] = "getSecondary"
    /\ IF p.secondaryPool # <<>>
       THEN /\ p' = [p EXCEPT !.secondaryPool = Tail(@)]
            /\ loc' = [loc EXCEPT ![q].conn = Head(p.secondaryPool)]
            /\ pc' = [pc EXCEPT ![q] = "getStamp"]
       ELSE /\ pc' = [pc EXCEPT ![q] = "getLoad"]
            /\ UNCHANGED <<p, loc>>
    /\ solo' = Kept(q)
    /\ UNCHANGED <<args, newErr, now, closed, dialed, held, fillI, crashed, cvars>>

\* p.secondaryActive.Store(time.Now()); return conn, nil
GetStamp(q) ==
    /\ ~crashed /\ pc[q] = "getStamp"
    /\ p' = [p EXCEPT !.secondaryActive = now]
    /\ GetReturn(q, "nil", loc[q].conn, Kept(q))
    /\ UNCHANGED <<args, newErr, now, closed, dialed, fillI, crashed, cvars>>

\* mutant: off by one
MayDialAtLimit(active, maxActive) == active <= maxActive

\* if active < p.maxActive
MayDial(active, maxActive) == active < maxActive

\* active := atomic.LoadInt32(&p.active); ... else return nil, ErrPoolExhausted
GetLoad(q) ==
    /\ ~crashed /\ pc[q] = "getLoad"
    /\ IF MayDial(p.active, p.maxActive)
       THEN /\ loc' = [loc EXCEPT ![q].active = p.active]
            /\ pc' = [pc EXCEPT ![q] = "getCAS"]
            /\ solo' = Kept(q)
            /\ UNCHANGED held
       ELSE GetReturn(q, "ErrPoolExhausted", NoConn, Kept(q))
    /\ UNCHANGED <<args, newErr, p, now, closed, dialed, fillI, crashed, cvars>>

\* if atomic.CompareAndSwapInt32(&p.active, active, active+1) {
\*     conn, err := p.df(p.Network, p.Addr); if err == nil return conn, nil }
\* else loop.  The dial touches nothing of the pool: it is taken in the step
\* of the CAS that precedes it.
GetCAS(q) ==
    /\ ~crashed /\ pc[q] = "getCAS"
    /\ IF p.active = loc[q].active
       THEN /\ p' = [p EXCEPT !.active = loc[q].active + 1]
            /\ \E ok \in BOOLEAN :
                /\ ok => dialed < MaxConns
                /\ IF ok
                   THEN /\ dialed' = dialed + 1
                        /\ GetReturn(q, "nil", dialed + 1, Kept(q))
                   ELSE /\ pc' = [pc EXCEPT ![q] = "getUndo"]
                        /\ solo' = Kept(q)
                        /\ UNCHANGED <<dialed, held, loc>>
       ELSE /\ pc' = [pc EXCEPT ![q] = "getLoad"]
            /\ solo' = Kept(q)
            /\ UNCHANGED <<p, dialed, held, loc>>
    /\ UNCHANGED <<args, newErr, now, closed, fillI, crashed, cvars>>

\* atomic.AddInt32(&p.active, -1); return nil, err
GetUndo(q) ==
    /\ ~crashed /\ pc[q] = "getUndo"
    /\ p' = [p EXCEPT !.active = @ - 1]
    /\ GetReturn(q, "dialErr", NoConn, Kept(q))
    /\ UNCHANGED <<args, newErr, now, closed, dialed, fillI, crashed, cvars>>

(***************************************************************************)
(* Pool.Put.  crit: conn.LastCritical != nil, which only the holder's own  *)
(* commands on the client set.  A client with a critical error has closed  *)
(* itself: it is counted with the closed ones.                             *)
(***************************************************************************)
PutReturn(q) ==
    /\ pc' = [pc EXCEPT ![q] = "idle"]
    /\ loc' = [loc EXCEPT ![q] = NoLoc]

\* mutant: a client with a critical error is dropped without the decrement
PutPrimaryKeepsCount(q, c, crit) ==
    /\ held' = [held EXCEPT ![q] = @ \ {c}]
    /\ IF crit
       THEN /\ closed' = closed \cup {c}
            /\ PutReturn(q)
            /\ UNCHANGED p
       ELSE IF Len(p.pool) < p.size
       THEN /\ p' = [p EXCEPT !.pool = Append(@, c)]
            /\ pc' = [pc EXCEPT ![q] = "putCheck"]
            /\ UNCHANGED <<closed, loc>>
       ELSE /\ pc' = [pc EXCEPT ![q] = "putSecondary"]
            /\ loc' = [loc EXCEPT ![q].conn = c]
            /\ UNCHANGED <<p, closed>>

\* mutant: once Empty has stopped the pool, Put closes what it is given
PutPrimaryStopped(q, c, crit) ==
    /\ held' = [held EXCEPT ![q] = @ \ {c}]
    /\ IF crit \/ p.stopOnce = "done"
       THEN /\ p' = [p EXCEPT !.active = @ - 1]
            /\ closed' = closed \cup {c}
            /\ PutReturn(q)
       ELSE IF Len(p.pool) < p.size
       THEN /\ p' = [p EXCEPT !.pool = Append(@, c)]
            /\ pc' = [pc EXCEPT ![q] = "putCheck"]
            /\ UNCHANGED <<closed, loc>>
       ELSE /\ pc' = [pc EXCEPT ![q] = "putSecondary"]
            /\ loc' = [loc EXCEPT ![q].conn = c]
            /\ UNCHANGED <<p, closed>>

\* if conn.LastCritical == nil { select { case p.pool <- conn: / default: } }
\* else { atomic.AddInt32(&p.active, -1) }
PutPrimary(q, c, crit) ==
    /\ held' = [held EXCEPT ![q] = @ \ {c}]
    /\ IF crit
       THEN /\ p' = [p EXCEPT !.active = @ - 1]
            /\ closed' = closed \cup {c}
            /\ PutReturn(q)
       ELSE IF Len(p.pool) < p.size
       THEN /\ p' = [p EXCEPT !.pool = Append(@, c)]
            /\ pc' = [pc EXCEPT ![q] = "putCheck"]
            /\ UNCHANGED <<closed, loc>>
       ELSE /\ pc' = [pc EXCEPT ![q] = "putSecondary"]
            /\ loc' = [loc EXCEPT ![q].conn = c]
            /\ UNCHANGED <<p, closed>>

Put(q, c, crit) ==
    /\ ~crashed /\ q \in Callers /\ pc[q] = "idle" /\ c \in held[q]
    /\ solo' = Snapshot(q, "Put", c, crit)
    /\ PutPrimary(q, c, crit)
    /\ UNCHANGED <<args, newErr, now, dialed, fillI, crashed, cvars>>

\* mutant: not-after in place of before
SecondaryIdleNotAfter(stamp, t) == stamp + waitForReuse <= t

\* p.secondaryActive.Load().(time.Time).Add(waitForReuse).Before(time.Now())
SecondaryIdle(stamp, t) == stamp + waitForReuse < t

PutCheck(q) ==
    /\ ~crashed /\ pc[q] = "putCheck"
    /\ IF SecondaryIdle(p.secondaryActive, now)
       THEN /\ pc' = [pc EXCEPT ![q] = "putDrain"]
            /\ UNCHANGED loc
       ELSE PutReturn(q)
    /\ solo' = Kept(q)
    /\ UNCHANGED <<args, newErr, p, now, closed, dialed, held, fillI, crashed, cvars>>

\* select { case conn := <-p.secondaryPool: / default: }
PutDrain(q) ==
    /\ ~crashed /\ pc[q] = "putDrain"
    /\ IF p.secondaryPool # <<>>
       THEN /\ p' = [p EXCEPT !.secondaryPool = Tail(@)]
            /\ loc' = [loc EXCEPT ![q].conn = Head(p.secondaryPool)]
            /\ pc' = [pc EXCEPT ![q] = "putDrainClose"]
       ELSE /\ pc' = [pc EXCEPT ![q] = "putRefresh"]
            /\ UNCHANGED <<p, loc>>
    /\ solo' = Kept(q)
    /\ UNCHANGED <<args, newErr, now, closed, dialed, held, fillI, crashed, cvars>>

\* atomic.AddInt32(&p.active, -1); conn.Close()
PutClose(q) ==
    /\ ~crashed /\ pc[q] \in {"putDrainClose", "putOverflow"}
    /\ p' = [p EXCEPT !.active = @ - 1]
    /\ closed' = closed \cup {loc[q].conn}
    /\ PutReturn(q)
    /\ solo' = Kept(q)
    /\ UNCHANGED <<args, newErr, now, dialed, held, fillI, crashed, cvars>>

\* p.secondaryActive.Store(time.Now())
PutRefresh(q) ==
    /\ ~crashed /\ pc[q] = "putRefresh"
    /\ p' = [p EXCEPT !.secondaryActive = now]
    /\ PutReturn(q)
    /\ solo' = Kept(q)
    /\ UNCHANGED <<args, newErr, now, closed, dialed, held, fillI, crashed, cvars>>

\* select { case p.secondaryPool <- conn: / default: }
PutSecondary(q) ==
    /\ ~crashed /\ pc[q] = "putSecondary"
    /\ IF Len(p.secondaryPool) < p.secCap
       THEN /\ p' = [p EXCEPT !.secondaryPool = Append(@, loc[q].conn)]
            /\ PutReturn(q)
       ELSE /\ pc' = [pc EXCEPT ![q] = "putOverflow"]
            /\ UNCHANGED <<p, loc>>
    /\ solo' = Kept(q)
    /\ UNCHANGED <<args, newErr, now, closed, dialed, held, fillI, crashed, cvars>>

(***************************************************************************)
(* Pool.Cmd, as the probe calls it on each tick: p.Cmd("PING")             *)
(***************************************************************************)
\* case <-tick.C: p.Cmd("PING"), which starts with c, err := p.Get()
Cmd(q) ==
    /\ ~crashed /\ q = "probe" /\ pc[q] = "idle"
    /\ GetPrimary(q, Snapshot(q, "Cmd", NoConn, FALSE))
    /\ UNCHANGED <<args, newErr, now, closed, dialed, fillI, crashed, cvars>>

\* defer p.Put(c); return c.Cmd(cmd, args...): the command may leave the
\* client with a critical error, then Put runs
CmdPut(q) ==
    /\ ~crashed /\ pc[q] = "cmdPut"
    /\ \E c \in held[q], crit \in BOOLEAN :
        /\ PutPrimary(q, c, crit)
        /\ solo' = IF solo.who = q
                   THEN [solo EXCEPT !.conn = c, !.critical = crit]
                   ELSE NoSolo
    /\ UNCHANGED <<args, newErr, now, dialed, fillI, crashed, cvars>>

(***************************************************************************)
(* Pool.Empty and the probe goroutine                                      *)
(***************************************************************************)
\* p.stopOnce.Do(...): a second caller waits while the first is inside Do
Empty(q) ==
    /\ ~crashed /\ q \in Callers /\ pc[q] = "idle"
    /\ p.stopOnce # "running"
    /\ IF p.stopOnce = "new"
       THEN /\ p' = [p EXCEPT !.stopOnce = "running"]
            /\ pc' = [pc EXCEPT ![q] = "emptySend"]
       ELSE /\ pc' = [pc EXCEPT ![q] = "emptyDrain"]
            /\ UNCHANGED p
    /\ solo' = Snapshot(q, "Empty", NoConn, FALSE)
    /\ UNCHANGED <<args, newErr, now, closed, dialed, held, loc, fillI, crashed, cvars>>

\* p.stopCh <- true, received by the probe's select (case <-p.stopCh)
EmptySend(q) ==
    /\ ~crashed /\ pc[q] = "emptySend" /\ pc["probe"] = "idle"
    /\ pc' = [pc EXCEPT ![q] = "emptyRecv", !["probe"] = "closing"]
    /\ solo' = Kept(q)
    /\ UNCHANGED <<args, newErr, p, now, closed, dialed, held, loc, fillI, crashed, cvars>>

\* close(p.stopCh); return
ProbeClose ==
    /\ ~crashed /\ pc["probe"] = "closing"
    /\ p' = [p EXCEPT !.stopCh = "closed"]
    /\ pc' = [pc EXCEPT !["probe"] = "done"]
    /\ solo' = solo
    /\ UNCHANGED <<args, newErr, now, closed, dialed, held, loc, fillI, crashed, cvars>>

\* <-p.stopCh, which returns once the channel is closed; Do returns
EmptyRecv(q) ==
    /\ ~crashed /\ pc[q] = "emptyRecv" /\ p.stopCh = "closed"
    /\ p' = [p EXCEPT !.stopOnce = "done"]
    /\ pc' = [pc EXCEPT ![q] = "emptyDrain"]
    /\ solo' = Kept(q)
    /\ UNCHANGED <<args, newErr, now, closed, dialed, held, loc, fillI, crashed, cvars>>

\* for { select { case conn = <-p.pool: conn.Close() / default: return } }
EmptyDrain(q) ==
    /\ ~crashed /\ pc[q] = "emptyDrain"
    /\ IF p.pool # <<>>
       THEN /\ p' = [p EXCEPT !.pool = Tail(@)]
            /\ closed' = closed \cup {Head(p.pool)}
            /\ UNCHANGED pc
       ELSE /\ pc' = [pc EXCEPT ![q] = "idle"]
            /\ UNCHANGED <<p, closed>>
    /\ solo' = Kept(q)
    /\ UNCHANGED <<args, newErr, now, dialed, held, loc, fillI, crashed, cvars>>

\* tick := time.NewTicker(5 * time.Minute / time.Duration(size)): the integer
\* division panics for size = 0, and a panic in a goroutine ends the program.
\* <-startTickCh returns at once: NewCustom has returned.
ProbeStart ==
    /\ ~crashed /\ pc["probe"] = "start"
    /\ IF p.size = 0
       THEN /\ crashed' = TRUE
            /\ UNCHANGED pc
       ELSE /\ pc' = [pc EXCEPT !["probe"] = "idle"]
            /\ UNCHANGED crashed
    /\ solo' = Kept("probe")
    /\ UNCHANGED <<args, newErr, p, now, closed, dialed, held, loc, fillI, cvars>>

(***************************************************************************)
(* NewCustom's background fill: for i := 0; i < size-1; i++ { mkConn() }   *)
(***************************************************************************)
FillNext(i) == IF i < p.size - 1 THEN "dial" ELSE "done"

\* mkConn: client, err := df(network, addr); if err == nil { p.pool <- client,
\* which waits for room in the channel
FillSend ==
    /\ ~crashed /\ pc["fill"] = "dial"
    /\ \E ok \in BOOLEAN :
        /\ ok => dialed < MaxConns
        /\ IF ok
           THEN /\ Len(p.pool) < p.size
                /\ dialed' = dialed + 1
                /\ p' = [p EXCEPT !.pool = Append(@, dialed + 1)]
                /\ pc' = [pc EXCEPT !["fill"] = "add"]
                /\ UNCHANGED fillI
           ELSE /\ fillI' = fillI + 1
                /\ pc' = [pc EXCEPT !["fill"] = FillNext(fillI + 1)]
                /\ UNCHANGED <<dialed, p>>
    /\ solo' = Kept("fill")
    /\ UNCHANGED <<args, newErr, now, closed, held, loc, crashed, cvars>>

\* atomic.AddInt32(&p.active, 1)
FillAdd ==
    /\ ~crashed /\ pc["fill"] = "add"
    /\ p' = [p EXCEPT !.active = @ + 1]
    /\ fillI' = fillI + 1
    /\ pc' = [pc EXCEPT !["fill"] = FillNext(fillI + 1)]
    /\ solo' = Kept("fill")
    /\ UNCHANGED <<args, newErr, now, closed, dialed, held, loc, crashed, cvars>>

\* the clock
Tick ==
    /\ ~crashed /\ newErr \in {"nil", "dialErr"}
    /\ now < MaxTime
    /\ now' = now + 1
    /\ solo' = NoSolo
    /\ UNCHANGED <<args, newErr, p, closed, dialed, pc, held, loc, fillI, crashed, cvars>>

\* the steps of goroutine q
Step(q) ==
    \/ Get(q)
    \/ GetSecondary(q)
    \/ GetStamp(q)
    \/ GetLoad(q)
    \/ GetCAS(q)
    \/ GetUndo(q)
    \/ \E c \in held[q], crit \in BOOLEAN : Put(q, c, crit)
    \/ PutCheck(q)
    \/ PutDrain(q)
    \/ PutClose(q)
    \/ PutRefresh(q)
    \/ PutSecondary(q)
    \/ Cmd(q)
    \/ CmdPut(q)
    \/ Empty(q)
    \/ EmptySend(q)
    \/ EmptyRecv(q)
    \/ EmptyDrain(q)
    \/ q = "probe" /\ ProbeClose
    \/ q = "probe" /\ ProbeStart

FillStep ==
    \/ FillSend
    \/ FillAdd

PoolNext ==
    \/ \E q \in Procs : Step(q)
    \/ FillStep
    \/ Tick

\* the cluster is not part of the pool's specification
ClusterIdle ==
    /\ pools = {}
    /\ mapping = <<>>
    /\ throttled = FALSE
    /\ cur = NoFrame
    /\ deferred = <<>>
    /\ cpc = "none"
    /\ result = "none"
    /\ trips = 0
    /\ tick = FALSE
    /\ clock = 0
    /\ actor = "none"
    /\ key = <<>>
    /\ lookup = NoLookup
    /\ borrow = NoBorrow
    /\ last = NoReply
    /\ rst = NoRst
    /\ sinceSlots = 0

Init == PoolInit(Configs) /\ ClusterIdle
Next == PoolNext
Spec == Init /\ [][Next]_vars

(***************************************************************************)
(* SpecSerial: the same steps, with every call run to its return before    *)
(* anyone else (or the clock) moves.  A goroutine that waits on a channel  *)
(* (Empty on stopCh) lets the others run.                                  *)
(***************************************************************************)
Running(q) == pc[q] \notin {"idle", "done", "start", "dial", "emptySend", "emptyRecv"}
Quiet(q) == \A r \in AllProcs \ {q} : ~Running(r)

InitSerial == PoolInit(ConfigsSerial) /\ ClusterIdle
NextSerial ==
    \/ \E q \in Procs : Quiet(q) /\ Step(q)
    \/ Quiet("fill") /\ FillStep
    \/ Quiet("clock") /\ Tick
SpecSerial == InitSerial /\ [][NextSerial]_vars

(***************************************************************************)
(* package cluster.  Addresses are the strings "host:port" of the nodes;   *)
(* "" is the address of a slot nobody told the cluster about.  The servers *)
(* are arbitrary: every reply and every dial is a choice.                  *)
(***************************************************************************)
Addrs == {"a", "b"}
Slots == {0, 1}
MaxDepth == 3
MaxClock == 5
\* Opts.ResetThrottle, in units of half the interval
ResetThrottle == 2
\* Opts.Addr
Seed == "a"

\* the groups of the cluster's variables
tvars == <<pools, mapping, throttled, tick>>
qvars == <<cur, deferred, cpc, result, trips, last>>
wvars == <<clock, sinceSlots>>
kvars == <<key, lookup>>

\* the pool package is not part of the cluster's specification
PoolAbsent ==
    /\ args = [size |-> 0, maxActive |-> 0]
    /\ newErr = "none"
    /\ p = NilPool
    /\ now = 0
    /\ closed = {}
    /\ dialed = 0
    /\ pc = [q \in AllProcs |-> "done"]
    /\ held = [q \in Procs |-> {}]
    /\ loc = [q \in AllProcs |-> NoLoc]
    /\ fillI = 0
    /\ crashed = FALSE
    /\ solo = NoSolo

\* what a server answers to a command: r.Err == nil ("ok"), an IOErr, a
\* "MOVED <slot> <addr>" or "ASK <slot> <addr>" error (redirectInfo takes the
\* two apart), or another application error
Replies ==
    {[kind |-> k, slot |-> 0, addr |-> ""] : k \in {"ok", "ioerr", "apperr"}}
    \cup {[kind |-> k, slot |-> s, addr |-> a] :
             k \in {"MOVED", "ASK"}, s \in Slots, a \in Addrs}
OkReply == [kind |-> "ok", slot |-> 0, addr |-> ""]

\* getConn(key, addr), with addr already looked up for a key, on the pools
\* ps.  The pool of addr (the registered one, or one made for the call and
\* not registered) gives a client; or it does not, and a random registered
\* pool is asked: errNoPools without one, else its client or its error.
\* The client of a pool has the pool's address.  Nothing can be dialed at
\* the address "".
getConn(addr, ps) ==
    (IF addr # "" THEN {[err |-> "nil", client |-> addr]} ELSE {})
    \cup {[err |-> "nil", client |-> a] : a \in ps}
    \cup {[err |-> IF ps = {} THEN "errNoPools" ELSE "getErr", client |-> ""]}

\* c.mapping[i] = slotAddr for the slots of the groups that were read: a
\* slot is given to one of the addresses of the reply, or keeps its entry
Remap(mp, targets) ==
    {m \in [Slots -> Addrs \cup {""}] :
        \A s \in Slots : m[s] \in targets \/ m[s] = mp[s]}

\* the addresses slotAddr of a CLUSTER SLOTS reply sent through the pool
\* via: ip + ":" + port of its entries, and p.Addr for an entry with ip ""
SlotAddrs(via, explicit, self) == explicit \cup (IF self THEN {via} ELSE {})

\* the outcome of a resetInner that did nothing
NoRun(ps, mp, tk) ==
    [err |-> "nil", pools |-> ps, mapping |-> mp, tick |-> tk,
     issued |-> FALSE, via |-> "", explicit |-> {}, self |-> FALSE,
     emptied |-> {}]

\* mutant: an error in the middle of the reply leaves the registry with
\* the pools made so far
resetInnerKeepsNew(ps, mp, th, tk) ==
    LET taken == [NoRun(ps, mp, tk) EXCEPT !.tick = FALSE]
        run == UNION {
                 {[err |-> e,
                   pools |-> {q} \cup SlotAddrs(q, ex, sf),
                   mapping |-> m, tick |-> FALSE, issued |-> TRUE,
                   via |-> q, explicit |-> ex, self |-> sf,
                   emptied |-> IF e = "nil"
                               THEN ps \ ({q} \cup SlotAddrs(q, ex, sf))
                               ELSE {}] :
                      m \in Remap(mp, SlotAddrs(q, ex, sf)),
                      e \in {"nil", "resetErr"}} :
                 q \in ps, ex \in SUBSET Addrs, sf \in BOOLEAN}
    IN  IF th /\ ~tk
        THEN {NoRun(ps, mp, tk)}
        ELSE {[taken EXCEPT !.err = "resetErr"]}
             \cup {o \in run : o.err = "nil" => SlotAddrs(o.via, o.explicit, o.self) # {}}

\* resetInner on the pools ps and the mapping mp, with the throttle set or
\* not and a tick waiting in resetThrottle.C or not: the outcomes.  With
\* the throttle set and no tick to take it returns nil at once.  Else it
\* asks a random pool q for a client and for CLUSTER SLOTS (issued); an
\* error (no pool, no client, a failed or an empty reply, a bad entry, a
\* pool that cannot be made) returns with c.pools as it was and with the
\* mapping written so far; success makes c.pools the pool asked and the
\* pools of the addresses of the reply, and empties the others.
resetInner(ps, mp, th, tk) ==
    LET taken == [NoRun(ps, mp, tk) EXCEPT !.tick = FALSE]
        run == UNION {
                 {[err |-> e,
                   pools |-> IF e = "nil"
                             THEN {q} \cup SlotAddrs(q, ex, sf)
                             ELSE ps,
                   mapping |-> m, tick |-> FALSE, issued |-> TRUE,
                   via |-> q, explicit |-> ex, self |-> sf,
                   emptied |-> IF e = "nil"
                               THEN ps \ ({q} \cup SlotAddrs(q, ex, sf))
                               ELSE {}] :
                      m \in Remap(mp, SlotAddrs(q, ex, sf)),
                      e \in {"nil", "resetErr"}} :
                 q \in ps, ex \in SUBSET Addrs, sf \in BOOLEAN}
    IN  IF th /\ ~tk
        THEN {NoRun(ps, mp, tk)}
        ELSE {[taken EXCEPT !.err = "resetErr"]}
             \cup {o \in run : o.err = "nil" => SlotAddrs(o.via, o.explicit, o.self) # {}}

\* haveTried / justTried: a nil map is the empty set
haveTried(tried, addr) == addr \in tried
justTried(tried, addr) == tried \cup {addr}

\* return r (deferred Puts run next)
Return(res) ==
    /\ result' = res
    /\ cpc' = "unwind"
    /\ UNCHANGED <<cur, deferred>>

\* c.callCh <- f with nobody receiving: spin has returned, the caller waits
\* for ever
Blocked ==
    /\ cpc' = "blocked"
    /\ UNCHANGED <<cur, deferred, result>>

\* return c.clientCmd(client, cmd, args, ask, tried, haveReset): the next
\* activation starts with this one's Put still deferred
Recurse(client, ask, tried, haveReset) ==
    /\ Len(deferred) < MaxDepth
    /\ cur' = [client |-> client, ask |-> ask, tried |-> tried,
               haveReset |-> haveReset]
    /\ deferred' = Append(deferred, client)
    /\ UNCHANGED <<cpc, result>>

Topology(ps, mp) ==
    /\ pools' = ps
    /\ mapping' = mp
    /\ throttled' = TRUE

\* what an outcome of resetInner writes to the Cluster
Written(outcomes) ==
    {[err |-> o.err, pools |-> o.pools, mapping |-> o.mapping,
      tick |-> o.tick, issued |-> o.issued] : o \in outcomes}

\* what Reset leaves behind for the outcome o of resetInner
Refreshed(o) ==
    /\ Topology(o.pools, o.mapping)
    /\ tick' = o.tick
    /\ sinceSlots' = IF o.issued THEN 0 ELSE sinceSlots

\* nothing of the topology changes and no Reset ran
NoRefresh ==
    /\ rst' = NoRst
    /\ UNCHANGED <<pools, throttled, tick, sinceSlots>>

\* c.Reset(); client, getErr := c.getConn("", ""); ... clientCmd(client, cmd,
\* args, false, tried, true)
ResetAndRetry(tried, mp) ==
    \E o \in Written(resetInner(pools, mp, throttled, tick)) :
        /\ Refreshed(o)
        /\ rst' = NoRst
        /\ IF o.err # "nil"
           THEN Return("resetErr")
           ELSE \E g \in getConn("", o.pools) :
                    IF g.err # "nil"
                    THEN Return(g.err)
                    ELSE Recurse(g.client, FALSE, tried, TRUE)

\* if r.IsType(redis.IOErr) { ... }
CmdIOErr(haveTriedBefore, tried) ==
    IF actor = "returned" /\ ~(haveTriedBefore /\ cur.haveReset)
    THEN /\ Blocked
         /\ NoRefresh
         /\ UNCHANGED mapping
    ELSE
    \E g \in (IF haveTriedBefore
              THEN {[err |-> "skipped", client |-> ""]}
              ELSE getConn(cur.client, pools)) :
        IF g.err = "nil"
        THEN /\ Recurse(g.client, FALSE, tried, cur.haveReset)
             /\ NoRefresh
             /\ UNCHANGED mapping
        ELSE IF ~cur.haveReset
        THEN ResetAndRetry(tried, mapping)
        ELSE /\ Return("ioerr")
             /\ NoRefresh
             /\ UNCHANGED mapping

\* mutant: an ASK is recorded in the mapping as a MOVED is
CmdRedirectRemaps(r, tried) ==
    IF actor = "returned"
    THEN /\ Blocked
         /\ NoRefresh
         /\ UNCHANGED mapping
    ELSE IF haveTried(tried, r.addr)
    THEN IF cur.haveReset
         THEN /\ Return("nonsense")
              /\ NoRefresh
              /\ UNCHANGED mapping
         ELSE ResetAndRetry({}, mapping)
    ELSE /\ mapping' = [mapping EXCEPT ![r.slot] = r.addr]
         /\ NoRefresh
         /\ \E g \in getConn(r.addr, pools) :
                IF g.err # "nil"
                THEN Return(g.err)
                ELSE Recurse(g.client, r.kind = "ASK", tried, cur.haveReset)

\* if moved || ask { slot, addr := redirectInfo(msg) ... }
CmdRedirect(r, tried) ==
    IF actor = "returned"
    THEN /\ Blocked
         /\ NoRefresh
         /\ UNCHANGED mapping
    ELSE IF haveTried(tried, r.addr)
    THEN IF cur.haveReset
         THEN /\ Return("nonsense")
              /\ NoRefresh
              /\ UNCHANGED mapping
         ELSE ResetAndRetry({}, mapping)
    ELSE /\ mapping' = IF r.kind = "MOVED"
                       THEN [mapping EXCEPT ![r.slot] = r.addr]
                       ELSE mapping
         /\ NoRefresh
         /\ \E g \in getConn(r.addr, pools) :
                IF g.err # "nil"
                THEN Return(g.err)
                ELSE Recurse(g.client, r.kind = "ASK", tried, cur.haveReset)

\* Cluster.Cmd: key, err := KeyFromArgs(args); client, err := c.getConn(key,
\* ""); return c.clientCmd(client, cmd, args, false, nil, false)
ClusterCmd ==
    /\ cpc \in {"idle", "done"}
    /\ trips' = 0
    /\ last' = NoReply
    /\ IF actor = "returned"
       THEN /\ cpc' = "blocked"
            /\ result' = "none"
            /\ cur' = NoFrame
            /\ deferred' = <<>>
       ELSE
       \E s \in Slots :
       \E g \in getConn(mapping[s], pools) :
            IF g.err # "nil"
            THEN /\ result' = g.err
                 /\ cpc' = "done"
                 /\ cur' = NoFrame
                 /\ deferred' = <<>>
            ELSE /\ result' = "none"
                 /\ cpc' = "attempt"
                 /\ cur' = [NoFrame EXCEPT !.client = g.client]
                 /\ deferred' = <<g.client>>
    /\ NoRefresh
    /\ UNCHANGED <<mapping, clock, actor, kvars, borrow, pvars>>

\* one activation of clientCmd, up to its return or to the activation it
\* calls: the ASKING when ask is set, the command, and the handling of the
\* reply
clientCmd ==
    /\ cpc = "attempt"
    /\ \E r1 \in (IF cur.ask THEN Replies ELSE {OkReply}), r2 \in Replies :
        LET r == IF r1.kind # "ok" THEN r1 ELSE r2
            haveTriedBefore == haveTried(cur.tried, cur.client)
            tried == justTried(cur.tried, cur.client)
        IN  /\ r1.kind # "ok" => r2 = OkReply
            /\ trips' = trips + (IF cur.ask /\ r1.kind = "ok" THEN 2 ELSE 1)
            /\ last' = r
            /\ IF r.kind = "ok"
               THEN /\ Return("ok")
                    /\ NoRefresh
                    /\ UNCHANGED mapping
               ELSE IF r.kind = "ioerr"
               THEN CmdIOErr(haveTriedBefore, tried)
               ELSE IF r.kind \in {"MOVED", "ASK"}
               THEN CmdRedirect(r, tried)
               ELSE /\ Return("apperr")
                    /\ NoRefresh
                    /\ UNCHANGED mapping
    /\ UNCHANGED <<clock, actor, kvars, borrow, pvars>>

\* defer c.Put(client), innermost activation first
ClusterPut ==
    /\ cpc = "unwind"
    /\ deferred # <<>>
    /\ IF actor = "returned"
       THEN /\ cpc' = "blocked"
            /\ UNCHANGED <<deferred, cur>>
       ELSE /\ deferred' = SubSeq(deferred, 1, Len(deferred) - 1)
            /\ cpc' = IF Len(deferred) = 1 THEN "done" ELSE "unwind"
            /\ cur' = IF Len(deferred) = 1 THEN NoFrame ELSE cur
    /\ last' = NoReply
    /\ NoRefresh
    /\ UNCHANGED <<mapping, result, trips, clock, actor, kvars, borrow, pvars>>

\* Cluster.Reset, called by another goroutine
Reset ==
    /\ actor # "returned"
    /\ \E o \in Written(resetInner(pools, mapping, throttled, tick)) : Refreshed(o)
    /\ rst' = NoRst
    /\ UNCHANGED <<qvars, clock, actor, kvars, borrow, pvars>>

\* Cluster.Reset, called by the goroutine whose calls are observed: what it
\* did is recorded in rst
Refresh ==
    /\ actor # "returned"
    /\ \E o \in resetInner(pools, mapping, throttled, tick) :
        /\ Refreshed(o)
        /\ rst' = [issued |-> o.issued, err |-> o.err, via |-> o.via,
                   explicit |-> o.explicit, self |-> o.self,
                   emptied |-> o.emptied, since |-> sinceSlots]
    /\ UNCHANGED <<qvars, clock, actor, kvars, borrow, pvars>>

\* Cluster.Close: the function it sends to the actor
Close ==
    /\ actor = "spin"
    /\ actor' = "closing"
    /\ pools' = {}
    /\ rst' = [NoRst EXCEPT !.emptied = pools]
    /\ UNCHANGED <<mapping, throttled, tick, sinceSlots, clock, qvars, kvars, borrow, pvars>>

\* close(c.stopCh), and spin returns: case <-c.stopCh: return
Stop ==
    /\ actor = "closing"
    /\ actor' = "returned"
    /\ rst' = NoRst
    /\ UNCHANGED <<tvars, wvars, qvars, kvars, borrow, pvars>>

\* a tick of resetThrottle arrives, its channel holding one at most; how
\* long the interval took is not measured
ThrottleTick ==
    /\ actor = "spin" /\ throttled /\ ~tick
    /\ tick' = TRUE
    /\ rst' = NoRst
    /\ UNCHANGED <<pools, mapping, throttled, wvars, qvars, actor, kvars, borrow, pvars>>

\* time passes, measured: resetThrottle ticks every ResetThrottle after
\* NewWithOpts made it, a tick nobody took staying in the channel
Advance ==
    /\ clock < MaxClock
    /\ clock' = clock + 1
    /\ sinceSlots' = IF sinceSlots < ResetThrottle THEN sinceSlots + 1 ELSE sinceSlots
    /\ tick' = IF actor = "spin" /\ throttled /\ (clock + 1) % ResetThrottle = 0
               THEN TRUE
               ELSE tick
    /\ rst' = NoRst
    /\ UNCHANGED <<pools, mapping, throttled, qvars, actor, kvars, borrow, pvars>>

\* a key is the sequence of its bytes; the keys looked up are the short ones
\* over three bytes, and two longer ones
MaxKeyLen == 4
KeyBytes == {"{", "}", "a"}
LongKeys ==
    {<<"{", "}", "a", "b", "c">>,
     <<"f", "o", "o", "{", "b", "a", "r", "}", "b", "a", "z", "{", "q", "u", "x", "}">>}
Keys == UNION {[1..n -> KeyBytes] : n \in 0..MaxKeyLen} \cup LongKeys

\* strings.Index(s, ch) for a one-byte ch: the index, from 0, of the first
\* ch in s, or -1
Index(s, ch) ==
    IF \E i \in 1..Len(s) : s[i] = ch
    THEN (CHOOSE i \in 1..Len(s) : s[i] = ch /\ \A j \in 1..(i - 1) : s[j] # ch) - 1
    ELSE -1
\* s[lo:hi] panics unless 0 <= lo <= hi <= len(s)
InRange(s, lo, hi) == 0 <= lo /\ lo <= hi /\ hi <= Len(s)
Slice(s, lo, hi) == SubSeq(s, lo + 1, hi)

\* addrForKeyInner(key), up to the bytes it hands to CRC16 (the address is
\* c.mapping[CRC16(bytes) % numSlots]), or the panic of key[start+2:] when
\* start+2 is past the end of the key
addrForKeyInner(k) ==
    LET start == Index(k, "{")
    IN  IF start < 0
        THEN [err |-> "nil", hashed |-> k]
        ELSE IF ~InRange(k, start + 2, Len(k))
        THEN [err |-> "panic", hashed |-> <<>>]
        ELSE LET end == Index(Slice(k, start + 2, Len(k)), "}")
             IN  IF end < 0
                 THEN [err |-> "nil", hashed |-> k]
                 ELSE [err |-> "nil", hashed |-> Slice(k, start + 1, start + 2 + end)]

\* Cluster.GetAddrForKey(key): the actor runs addrForKeyInner; a panic in
\* the actor's goroutine ends the program
GetAddrForKey ==
    /\ actor = "spin"
    /\ lookup = NoLookup
    /\ lookup' = addrForKeyInner(key)
    /\ actor' = IF lookup'.err = "panic" THEN "panicked" ELSE actor
    /\ UNCHANGED <<tvars, wvars, qvars, key, borrow, rst, pvars>>

\* the goroutine that borrows clients of the cluster
Borrower == "c1"
\* what GetForKey gave: the client the borrower did not hold before
Borrowed == held[Borrower] \ borrow.had
\* the Get of getConn failed and the random pool has not been asked yet
Pending ==
    /\ borrow.stage = "get"
    /\ pc[Borrower] = "idle"
    /\ Borrowed = {}
    /\ borrow.fallback
\* the cluster variables GetForKey and Put leave alone
bvars == <<tvars, wvars, qvars, kvars, actor, rst>>

\* Cluster.GetForKey(key) = getConn(key, ""), for a cluster whose registry
\* is the pool of Opts.Addr: the actor looks the key's slot up and calls Get
\* on the pool of its address, up to the first step of Get
GetForKey ==
    /\ actor = "spin" /\ ~crashed
    /\ pc[Borrower] = "idle" /\ Quiet(Borrower)
    /\ ~Pending
    /\ \E s \in Slots :
        /\ borrow' = [stage |-> "get", pre |-> p, had |-> held[Borrower],
                      quiet |-> pc["fill"] = "done",
                      fallback |-> mapping[s] \in pools,
                      conn |-> NoConn, critical |-> FALSE]
    /\ GetPrimary(Borrower, Snapshot(Borrower, "Get", NoConn, FALSE))
    /\ UNCHANGED <<args, newErr, now, closed, dialed, fillI, crashed, bvars>>

\* p = c.getRandomPoolInner(); conn, err = p.Get(): after an error of the
\* first Get a random pool of the registry is asked, once
GetFallback ==
    /\ actor = "spin" /\ ~crashed
    /\ Quiet(Borrower)
    /\ Pending
    /\ borrow' = [borrow EXCEPT !.pre = p, !.fallback = FALSE]
    /\ GetPrimary(Borrower, Snapshot(Borrower, "Get", NoConn, FALSE))
    /\ UNCHANGED <<args, newErr, now, closed, dialed, fillI, crashed, bvars>>

\* mutant: Put finds no pool for the client's address and closes the client
PutClientCloses(c, crit) ==
    /\ held' = [held EXCEPT ![Borrower] = @ \ {c}]
    /\ closed' = closed \cup {c}
    /\ UNCHANGED <<p, pc, loc>>

\* p := c.pools[conn.Addr]; if p == nil { conn.Close(); return }; p.Put(conn),
\* up to the first step of Put: every client that was borrowed has the
\* address of the registered pool
PutClient(c, crit) ==
    PutPrimary(Borrower, c, crit)

\* Cluster.Put(conn)
ClusterPutClient ==
    /\ actor = "spin" /\ ~crashed
    /\ pc[Borrower] = "idle" /\ Quiet(Borrower)
    /\ ~Pending
    /\ \E c \in held[Borrower], crit \in BOOLEAN :
        /\ solo' = Snapshot(Borrower, "Put", c, crit)
        /\ PutClient(c, crit)
        /\ borrow' = IF borrow.stage = "get" /\ Borrowed = {c}
                     THEN [borrow EXCEPT !.stage = "put", !.conn = c,
                                         !.critical = crit]
                     ELSE NoBorrow
    /\ UNCHANGED <<args, newErr, now, dialed, fillI, crashed, bvars>>

\* the steps of Get and Put inside the pool, after the first
BorrowStep ==
    /\ Quiet(Borrower)
    /\ \/ GetSecondary(Borrower)
       \/ GetStamp(Borrower)
       \/ GetLoad(Borrower)
       \/ GetCAS(Borrower)
       \/ GetUndo(Borrower)
       \/ PutCheck(Borrower)
       \/ PutDrain(Borrower)
       \/ PutClose(Borrower)
       \/ PutRefresh(Borrower)
       \/ PutSecondary(Borrower)

\* resetInner on a cluster of one node, with the pool of that node in full,
\* from its start to the first step of client, err := p.Get(): a tick is
\* taken from resetThrottle.C and the only pool is the random pool
ResetGet ==
    /\ actor = "spin" /\ ~crashed
    /\ pc[Borrower] = "idle" /\ Quiet(Borrower)
    /\ held[Borrower] = {}
    /\ throttled /\ tick
    /\ tick' = FALSE
    /\ GetPrimary(Borrower, Snapshot(Borrower, "Get", NoConn, FALSE))
    /\ UNCHANGED <<args, newErr, now, closed, dialed, fillI, crashed>>
    /\ UNCHANGED <<pools, mapping, throttled, wvars, qvars, kvars, actor, rst, borrow>>

\* defer client.Close(), when resetInner returns: the client is closed and
\* the pool is not told
ResetDoneWith(c) ==
    /\ held' = [held EXCEPT ![Borrower] = @ \ {c}]
    /\ closed' = closed \cup {c}
    /\ UNCHANGED <<p, pc, loc>>

\* resetInner after p.Get() gave a client, to its return: CLUSTER SLOTS on
\* the client, the reply of a cluster of one node (or an error), and the
\* deferred Close
ResetDone ==
    /\ actor = "spin" /\ ~crashed
    /\ pc[Borrower] = "idle" /\ Quiet(Borrower)
    /\ \E c \in held[Borrower] :
        /\ ResetDoneWith(c)
        /\ solo' = Snapshot(Borrower, "Reset", c, FALSE)
    /\ \E o \in resetInner(pools, mapping, FALSE, FALSE) :
        /\ o.issued
        /\ o.pools = pools
        /\ mapping' = o.mapping
    /\ UNCHANGED <<args, newErr, now, dialed, fillI, crashed>>
    /\ UNCHANGED <<pools, throttled, tick, wvars, qvars, kvars, actor, rst, borrow>>

\* Cluster.GetEvery: the actor ranges over c.pools in the order of the map
\* and calls Get on each pool.  Either every pool gives a client and the map
\* m of them is returned, or the Get of a pool f fails after the pools of
\* some set before gave theirs: resp{nil, err} is sent and m is dropped with
\* the clients in it (lost).  The caller has no other client of GetEvery.
GetEvery ==
    /\ actor = "spin"
    /\ borrow.stage = "none" \/ (borrow.stage = "every" /\ borrow.m = {})
    /\ \/ borrow' = [stage |-> "every", err |-> "nil", m |-> pools,
                     lost |-> {}]
       \/ \E f \in pools : \E before \in SUBSET (pools \ {f}) :
              borrow' = [stage |-> "every", err |-> "getErr", m |-> {},
                         lost |-> before]
    /\ UNCHANGED <<tvars, wvars, qvars, kvars, actor, rst, pvars>>

\* Cluster.Put(conn) on a client of the map GetEvery returned
PutEvery ==
    /\ actor = "spin"
    /\ borrow.stage = "every"
    /\ \E a \in borrow.m : borrow' = [borrow EXCEPT !.m = @ \ {a}]
    /\ UNCHANGED <<tvars, wvars, qvars, kvars, actor, rst, pvars>>

\* NewWithOpts returned a Cluster: the pool of Opts.Addr was made and the
\* first Reset (not throttled) succeeded
TopologyMade ==
    /\ \E o \in resetInner({Seed}, [s \in Slots |-> ""], FALSE, FALSE) :
        /\ o.err = "nil"
        /\ pools = o.pools
        /\ mapping = o.mapping
    /\ throttled = TRUE
    /\ tick = FALSE
    /\ clock = 0
    /\ sinceSlots = 0
    /\ actor = "spin"
    /\ rst = NoRst
    /\ cur = NoFrame
    /\ deferred = <<>>
    /\ cpc = "idle"
    /\ result = "none"
    /\ trips = 0
    /\ last = NoReply
    /\ lookup = NoLookup
    /\ borrow = NoBorrow
ClusterMade == PoolAbsent /\ TopologyMade
InitCluster == ClusterMade /\ key = <<>>

NextCluster ==
    \/ ClusterCmd
    \/ clientCmd
    \/ ClusterPut
    \/ Reset
    \/ ThrottleTick
SpecCluster == InitCluster /\ [][NextCluster]_vars

\* Cmd calls and a Close
NextClose ==
    \/ ClusterCmd
    \/ clientCmd
    \/ ClusterPut
    \/ Close
    \/ Stop
SpecClose == InitCluster /\ [][NextClose]_vars

\* Refresh alone, with the time measured
NextRefresh ==
    \/ Refresh
    \/ Advance
SpecRefresh == InitCluster /\ [][NextRefresh]_vars

\* GetForKey and Put on a cluster of one node, with the pool of that node in
\* full; the probe of the pool does not run
InitBorrow ==
    /\ PoolInit(ConfigsSerial)
    /\ newErr = "nil"
    /\ TopologyMade
    /\ pools = {Seed}
    /\ key = <<>>
NextBorrow ==
    \/ GetForKey
    \/ GetFallback
    \/ ClusterPutClient
    \/ BorrowStep
    \/ Quiet("fill") /\ FillStep
    \/ Quiet("clock") /\ Tick
SpecBorrow == InitBorrow /\ [][NextBorrow]_vars

\* the steps of the Get of resetInner inside the pool, after the first:
\* nothing is Put, and the secondary tier stays empty
DrainStep ==
    /\ Quiet(Borrower)
    /\ \/ GetSecondary(Borrower)
       \/ GetLoad(Borrower)
       \/ GetCAS(Borrower)
       \/ GetUndo(Borrower)

\* Resets one after the other on a cluster of one node, with the pool of
\* that node in full and no client checked out by a caller
NextDrain ==
    \/ ResetGet
    \/ ResetDone
    \/ DrainStep
    \/ ThrottleTick
    \/ Quiet("fill") /\ FillStep
    \/ Quiet("clock") /\ Tick
SpecDrain == InitBorrow /\ [][NextDrain]_vars

\* GetEvery and the Puts of its clients, while the topology changes
NextEvery ==
    \/ GetEvery
    \/ PutEvery
    \/ Reset
    \/ ThrottleTick
SpecEvery == InitCluster /\ [][NextEvery]_vars

\* the lookup of a key
InitKey == ClusterMade /\ key \in Keys
NextKey == GetAddrForKey
SpecKey == InitKey /\ [][NextKey]_vars

(***************************************************************************)
(* The pool's claims                                                       *)
(***************************************************************************)
PoolMade == newErr \in {"nil", "dialErr"}
HeldBy(c) == {q \in Procs : c \in held[q]}
InHand(c) == {q \in AllProcs : loc[q].conn = c}
CheckedOut == UNION {held[q] : q \in Procs}
\* q has returned from the call op, which ran without interleaving
Returned(q, op) == solo.who = q /\ solo.op = op /\ pc[q] = "idle"
IsPrefix(s, t) == Len(s) <= Len(t) /\ \A i \in 1..Len(s) : s[i] = t[i]

\* C1: whenever NewCustom produced a pool, 0 <= active <= maxActive, under
\* every interleaving of Get, Put, Cmd, Empty and the background fill.
C1_ActiveWithinBounds ==
    PoolMade => 0 <= p.active /\ p.active <= p.maxActive

\* C2: when no call and no constructor step is in progress, active is the
\* number of clients that are not closed: idle in primary, idle in
\* secondary, or checked out.
Quiescent == \A q \in AllProcs : pc[q] \in {"idle", "done"}
C2_ActiveCountsLive ==
    (PoolMade /\ ~crashed /\ Quiescent) =>
        p.active = Len(p.pool) + Len(p.secondaryPool) + Cardinality(CheckedOut)

\* C3: every client that was dialed is in exactly one place: once in the
\* primary buffer, once in the secondary buffer, in the hands of one
\* goroutine (checked out, or a local of its running call), or closed.
C3_ExactlyOnePlace ==
    \A c \in 1..dialed :
        Count(p.pool, c) + Count(p.secondaryPool, c) + Cardinality(HeldBy(c))
            + Cardinality(InHand(c)) + (IF c \in closed THEN 1 ELSE 0) = 1
C3_Witness ==
    /\ held["c1"] # {} /\ held["probe"] # {}
    /\ p.pool # <<>> /\ closed # {}

\* C4: a Get that runs without interleaving returns the head of primary if
\* primary is not empty; else the head of secondary, stamping
\* secondaryActive; else, if active < maxActive, it dials with active raised
\* by one (or fails to dial with active as it was); else ErrPoolExhausted
\* and nothing changed.  And no step of Get waits: in every position of Get
\* the goroutine can take a step.
GetOutcome(pre, r) ==
    IF pre.pool # <<>>
    THEN /\ r = [err |-> "nil", conn |-> Head(pre.pool)]
         /\ p = [pre EXCEPT !.pool = Tail(@)]
         /\ dialed = solo.dialed
    ELSE IF pre.secondaryPool # <<>>
    THEN /\ r = [err |-> "nil", conn |-> Head(pre.secondaryPool)]
         /\ p = [pre EXCEPT !.secondaryPool = Tail(@), !.secondaryActive = solo.at]
         /\ dialed = solo.dialed
    ELSE IF pre.active < pre.maxActive
    THEN \/ /\ r = [err |-> "nil", conn |-> solo.dialed + 1]
            /\ p = [pre EXCEPT !.active = @ + 1]
            /\ dialed = solo.dialed + 1
         \/ /\ r = [err |-> "dialErr", conn |-> NoConn]
            /\ p = pre
            /\ dialed = solo.dialed
    ELSE /\ r = [err |-> "ErrPoolExhausted", conn |-> NoConn]
         /\ p = pre
         /\ dialed = solo.dialed
GetPositions == {"getSecondary", "getStamp", "getLoad", "getCAS", "getUndo"}
C4_GetOrder ==
    /\ \A q \in Callers : Returned(q, "Get") => GetOutcome(solo.pre, solo.ret)
    /\ (solo.who = "probe" /\ solo.op = "Cmd" /\ pc["probe"] = "cmdPut")
           => GetOutcome(solo.pre, solo.ret)
    /\ \A q \in Procs : (~crashed /\ pc[q] \in GetPositions) => ENABLED Step(q)
C4_Witness ==
    /\ Returned("c1", "Get") /\ solo.ret.err = "ErrPoolExhausted"
    /\ solo.pre.active > 0

\* C5: a Put that runs without interleaving: a client with a critical error
\* is discarded, active is lowered by one and no tier changes; a healthy
\* client goes to primary if primary has room, else to secondary if
\* secondary has room, else it is closed and active lowered by one.
C5_PutRule ==
    \A q \in Callers : Returned(q, "Put") =>
        LET pre == solo.pre
            c == solo.conn
        IN  IF solo.critical
            THEN p = [pre EXCEPT !.active = @ - 1]
            ELSE IF Len(pre.pool) < pre.size
            THEN p.pool = Append(pre.pool, c) /\ c \notin closed
            ELSE IF Len(pre.secondaryPool) < pre.secCap
            THEN /\ p = [pre EXCEPT !.secondaryPool = Append(@, c)]
                 /\ closed = solo.closed
            ELSE /\ p = [pre EXCEPT !.active = @ - 1]
                 /\ closed = solo.closed \cup {c}
C5_Witness ==
    /\ Returned("c1", "Put") /\ ~solo.critical
    /\ Len(solo.pre.pool) = solo.pre.size
    /\ p.secondaryPool = Append(solo.pre.secondaryPool, solo.conn)

\* C6, as claimed: a Put after Empty closes the client and lowers active by
\* one, storing it in neither tier.
C6_PutAfterEmptyCloses ==
    \A q \in Callers : (Returned(q, "Put") /\ solo.pre.stopOnce = "done") =>
        /\ solo.conn \in closed
        /\ p.active = solo.pre.active - 1
        /\ p.pool = solo.pre.pool
        /\ p.secondaryPool = solo.pre.secondaryPool
\* C6, amended: a Put after Empty places the client by the same rule as
\* before Empty: a healthy client is stored (unclosed) in primary if primary
\* has room, else in secondary if secondary has room; it is closed only
\* with a critical error or with both tiers full.
C6_PutAfterEmptyStores ==
    \A q \in Callers : (Returned(q, "Put") /\ solo.pre.stopOnce = "done") =>
        LET pre == solo.pre
            c == solo.conn
        IN  IF solo.critical
            THEN c \in closed /\ p.pool = pre.pool
            ELSE IF Len(pre.pool) < pre.size
            THEN p.pool = Append(pre.pool, c) /\ c \notin closed
            ELSE IF Len(pre.secondaryPool) < pre.secCap
            THEN p.secondaryPool = Append(pre.secondaryPool, c) /\ c \notin closed
            ELSE c \in closed
C6_Witness ==
    /\ Returned("c1", "Put") /\ solo.pre.stopOnce = "done"
    /\ solo.pre.pool = <<>> /\ p.pool = <<solo.conn>>
    /\ CheckedOut = {}

\* C7, as claimed: size > maxActive fails with bad arguments, and every call
\* with maxActive <= 0 yields a pool whose limit is 100.
C7_AsClaimed ==
    /\ args.size > args.maxActive => newErr = "ErrIllegalArgument"
    /\ args.maxActive <= 0 => PoolMade /\ p.maxActive = defaultMaxActive
\* C7, amended: size > maxActive fails with bad arguments, also when
\* maxActive <= 0; a call with maxActive <= 0 yields a pool (whose limit is
\* 100) only for size = maxActive = 0, and panics for a smaller size.
C7_Validation ==
    /\ args.size > args.maxActive => newErr = "ErrIllegalArgument" /\ ~PoolMade
    /\ (args.maxActive <= 0 /\ args.size <= args.maxActive) =>
          IF args.size = 0
          THEN PoolMade /\ p.maxActive = defaultMaxActive /\ args.maxActive = 0
          ELSE newErr = "panic"
    /\ (args.maxActive > 0 /\ args.size <= args.maxActive /\ args.size >= 0) =>
          PoolMade /\ p.maxActive = args.maxActive
C7_Witness ==
    /\ args.maxActive <= 0 /\ PoolMade /\ p.maxActive = defaultMaxActive
    /\ held["c1"] # {}

\* C8: the pool of size 0 and maxActive 5 is usable: construction and the
\* probe do not fail, and Get answers ErrPoolExhausted only with five
\* clients checked out.
C8_SizeZeroUsable ==
    (args.size = 0 /\ args.maxActive = 5) =>
        /\ newErr = "nil" /\ ~crashed
        /\ \A q \in Callers :
              (Returned(q, "Get") /\ solo.ret.err = "ErrPoolExhausted")
                  => Cardinality(held[q]) = 5

\* C9: a Put that runs without interleaving takes a client out of secondary
\* only if it placed its own client in primary more than waitForReuse after
\* secondaryActive: then it closes the head of secondary and lowers active
\* by one, or, with secondary empty, stores the time in secondaryActive.
\* Every other Put leaves the clients of secondary where they are.  With
\* size 2, maxActive 4, two idle clients in each tier and active 4, a Cmd
\* (Get, command, Put) after more than a minute leaves active at 3.
C9_SurgeShrinks ==
    /\ \A q \in Callers : Returned(q, "Put") =>
        LET pre == solo.pre
            placed == ~solo.critical /\ Len(pre.pool) < pre.size
            idleLong == solo.at - pre.secondaryActive > waitForReuse
        IN  IF placed /\ idleLong
            THEN IF pre.secondaryPool # <<>>
                 THEN /\ p.secondaryPool = Tail(pre.secondaryPool)
                      /\ closed = solo.closed \cup {Head(pre.secondaryPool)}
                      /\ p.active = pre.active - 1
                      /\ p.secondaryActive = pre.secondaryActive
                 ELSE /\ p.secondaryPool = <<>>
                      /\ closed = solo.closed
                      /\ p.active = pre.active
                      /\ p.secondaryActive = solo.at
            ELSE /\ IsPrefix(pre.secondaryPool, p.secondaryPool)
                 /\ p.secondaryActive = pre.secondaryActive
    /\ (/\ Returned("probe", "Cmd") /\ solo.ret.err = "nil" /\ ~solo.critical
        /\ solo.pre.size = 2 /\ solo.pre.maxActive = 4
        /\ Len(solo.pre.pool) = 2 /\ Len(solo.pre.secondaryPool) = 2
        /\ solo.pre.active = 4
        /\ solo.at - solo.pre.secondaryActive > waitForReuse)
       => p.active = 3 /\ Len(p.pool) = 2 /\ Len(p.secondaryPool) = 1
C9_Witness ==
    /\ Returned("probe", "Cmd") /\ solo.ret.err = "nil" /\ ~solo.critical
    /\ solo.pre.size = 2 /\ solo.pre.maxActive = 4
    /\ Len(solo.pre.pool) = 2 /\ Len(solo.pre.secondaryPool) = 2
    /\ solo.pre.active = 4
    /\ solo.at - solo.pre.secondaryActive > waitForReuse
    /\ p.active = 3

(***************************************************************************)
(* The cluster's claims                                                    *)
(***************************************************************************)
\* an activation of clientCmd called the next one
Retried == cpc = "attempt" /\ Len(deferred') = Len(deferred) + 1

\* C10: every iteration of the retry loop that goes on to another attempt
\* (it neither succeeded nor returned) has added to tried an address that
\* was not in it, or has flipped haveReset from false to true.
C10_RetryProgress ==
    [][Retried => \/ cur'.tried \ cur.tried # {}
                  \/ ~cur.haveReset /\ cur'.haveReset]_vars

\* an activation of clientCmd has run, with the reply last'
Attempted == trips' > trips
\* the reply redirects to an address that is not in tried
Untried == last'.addr \notin justTried(cur.tried, cur.client)

\* C11: a Cmd call has issued at most |pools| + 2 command round-trips,
\* whatever the replies were.
C11_RoundTrips ==
    trips <= Cardinality(pools) + 2

\* C12: an activation that got MOVED <slot> <addr> for an address not yet
\* tried leaves mapping[slot] = addr and a pool for addr in the registry,
\* and the attempt that follows is made at addr.
C12_MovedFollowed ==
    [][(Attempted /\ last'.kind = "MOVED" /\ Untried) =>
          /\ mapping'[last'.slot] = last'.addr
          /\ last'.addr \in pools'
          /\ Retried => cur'.client = last'.addr]_vars

\* C13, as claimed: an activation that got ASK <slot> <addr> changes no
\* entry of the mapping, and the attempt that follows sends ASKING on a
\* connection to addr; ASKING is sent by no attempt but one that follows an
\* ASK.
C13_AskOneShot ==
    [][/\ (Attempted /\ last'.kind = "ASK") =>
            /\ mapping' = mapping
            /\ Retried => cur'.ask /\ cur'.client = last'.addr
       /\ (Attempted /\ cur.ask) => last.kind = "ASK"]_vars
\* C13, amended: an activation that got ASK <slot> <addr> for an address
\* not yet tried changes no entry of the mapping, and the attempt that
\* follows sends ASKING before the command, on the connection getConn gave
\* for addr: one to addr, or one of a registered pool.  For an address
\* already tried the cluster is Reset (which may rewrite the mapping) and
\* the attempt that follows sends no ASKING.  ASKING is sent by no attempt
\* but one that follows an ASK, and an attempt without it is one round-trip.
C13_AskUntried ==
    [][/\ (Attempted /\ last'.kind = "ASK" /\ Untried) =>
            /\ mapping' = mapping
            /\ Retried => cur'.ask /\ cur'.client \in {last'.addr} \cup pools
       /\ (Attempted /\ last'.kind = "ASK" /\ ~Untried /\ Retried) =>
            ~cur'.ask /\ cur'.haveReset
       /\ (Attempted /\ cur.ask) => last.kind = "ASK"
       /\ (Attempted /\ ~cur.ask) => trips' = trips + 1]_vars
C13_Witness ==
    /\ cpc = "unwind" /\ result = "ok"
    /\ Len(deferred) = 2 /\ trips = 3
    /\ deferred[1] # deferred[2]
    /\ \E s \in Slots : mapping[s] = deferred[1]

\* C14: every address that is the value of an entry of the mapping, "" apart,
\* has a pool in the registry.
C14_MappedHasPool ==
    \A s \in Slots : mapping[s] # "" => mapping[s] \in pools

\* the observed Reset asked for CLUSTER SLOTS and returned nil
Succeeded == rst.issued /\ rst.err = "nil"

\* C15: after a Reset that issued CLUSTER SLOTS and returned nil, the keys
\* of the registry are exactly the addresses of the reply, the address of
\* the pool that was asked being one of them only if the reply had an entry
\* with an empty ip; the pools that were emptied are not among them.
C15_RegistryIsReply ==
    Succeeded =>
        /\ pools = SlotAddrs(rst.via, rst.explicit, rst.self)
        /\ rst.emptied \cap pools = {}

\* C16: a Reset that issues CLUSTER SLOTS does so at least ResetThrottle
\* after the CLUSTER SLOTS before it.
C16_MinInterval ==
    rst.issued => rst.since >= ResetThrottle

\* C17: a Reset that returns an error leaves the registry as it was, and has
\* emptied no pool.
C17_ErrorKeepsRegistry ==
    [][rst'.err = "resetErr" => pools' = pools /\ rst'.emptied = {}]_vars
\* the reply named an address that had no pool, and an entry after it was
\* malformed
C17_Witness ==
    /\ rst.err = "resetErr"
    /\ rst.issued
    /\ rst.explicit \ pools # {}

\* C18: after Close the registry is empty, and no caller waits for ever to
\* send on callCh: a call that needs the actor returns.
C18_CloseTerminal ==
    actor # "spin" => pools = {} /\ cpc # "blocked"

\* the hash tag of a key: what is strictly between the first "{" and the
\* next "}" after it, or the whole key without such a pair
HashTag(k) ==
    LET start == Index(k, "{")
        rest == Slice(k, start + 1, Len(k))
    IN  IF start >= 0 /\ Index(rest, "}") >= 0
        THEN Slice(rest, 0, Index(rest, "}"))
        ELSE k

\* C19: the lookup of every key completes, and hashes the hash tag of the
\* key: the empty string for "{}abc", "bar" for "foo{bar}baz{qux}".
C19_HashTag ==
    lookup # NoLookup => lookup.err = "nil" /\ lookup.hashed = HashTag(key)

\* GetForKey gave a client and the Put of that client, the next call of the
\* borrower, has returned; nothing but the two ran on the pool
BorrowDone ==
    /\ borrow.stage = "put"
    /\ pc[Borrower] = "idle"
    /\ borrow.quiet
\* where Get found the client
Path ==
    IF Count(borrow.pre.pool, borrow.conn) > 0 THEN "primary"
    ELSE IF Count(borrow.pre.secondaryPool, borrow.conn) > 0 THEN "secondary"
    ELSE "dial"
Idle(pl) == Len(pl.pool) + Len(pl.secondaryPool)

C21_OneBorrowed ==
    Len(deferred) <= 1

\* no Reset is running, and the pool has finished filling itself
ResetsOver ==
    /\ pc[Borrower] = "idle"
    /\ held[Borrower] = {}
    /\ pc["fill"] = "done"

\* C22: the client a Reset borrowed is back in its pool, or closed and taken
\* off the pool's active count, when the Reset returns; and no Reset finds
\* the pool exhausted, no caller having a client checked out.
C22_ResetKeepsCapacity ==
    /\ ResetsOver => p.active = Idle(p)
    /\ ~(solo.who = Borrower /\ solo.op = "Get"
         /\ solo.ret.err = "ErrPoolExhausted")

\* C23: when GetEvery returns an error, the clients it had borrowed from
\* other pools during the call are back in their pools: none is left
\* checked out without a holder.
C23_AllOrNothing ==
    (borrow.stage = "every" /\ borrow.err # "nil") => borrow.lost = {}

====
